---- MODULE Spec2Model ----
(***************************************************************************)
(* A model of rbf/basis.py: the RBF class (a symbolic radial basis         *)
(* function with a tolerance, a table of known limits and a cache of       *)
(* compiled derivative evaluators), its constructor, its call operator,    *)
(* add_diff_to_cache, and the attribute assignments by which the module    *)
(* seeds its predefined instances.                                         *)
(*                                                                         *)
(* Symbolic objects are modelled by what the code reads of them: an        *)
(* expression by its text and its set of free symbols, an array by its     *)
(* shape, a compiled evaluator by its argument count and by the symbolic   *)
(* pieces it was compiled from.                                            *)
(***************************************************************************)
EXTENDS Integers, Sequences, FiniteSets, TLC

(* ---------------------------------------------------------------- bounds *)

\* Distinct derivative keys the callers of a run use: of a run of constructor
\* and evaluation calls, and of a run that also reassigns tol and limits and
\* calls add_diff_to_cache directly.
MaxKeys == 2
MaxKeysSeeded == 1
\* Rows of the array of centers: M ranges over 1..MaxPts.
MaxPts == 2
\* Spatial dimensions and derivative orders the callers of a run use.
Dims == {1, 2}
Orders == {0, 1}
\* Threads calling one RBF instance in the concurrent specification.
Threads == {"t1", "t2"}

(* ------------------------------------------------------ symbols, values *)

\* _R and _EPS, and a symbol that is neither.
R == "r"
EPS == "eps"
OtherSym == "y"

\* The *None* entry of a shape pattern: an axis of any length.
AnyLen == -1

\* Expressions handed to the constructor: phs1's, the docstring's sinc, one
\* without r, one with a foreign symbol, one with only a foreign symbol.
ExprInputs ==
  { [name |-> "eps*r",    syms |-> {R, EPS},      scaled |-> FALSE],
    [name |-> "sin(r)/r", syms |-> {R},           scaled |-> FALSE],
    [name |-> "eps",      syms |-> {EPS},         scaled |-> FALSE],
    [name |-> "y*r",      syms |-> {R, OtherSym}, scaled |-> FALSE],
    [name |-> "y",        syms |-> {OtherSym},    scaled |-> FALSE] }

NoExpr == [name |-> "", syms |-> {}, scaled |-> FALSE]

\* tol=None, and the tolerances handed to the constructor (not yet sympified).
NoTol == [set |-> FALSE, txt |-> "None", syms |-> {}, sympy |-> FALSE]
TolInputs ==
  { NoTol,
    [set |-> TRUE, txt |-> "1e-10*eps", syms |-> {EPS},     sympy |-> FALSE],
    [set |-> TRUE, txt |-> "r",     syms |-> {R},           sympy |-> FALSE],
    [set |-> TRUE, txt |-> "eps*y", syms |-> {EPS, OtherSym}, sympy |-> FALSE] }

\* The tolerance the module assigns to mat32 and mat52, a sympy expression
\* (phs1..phs8 are assigned the float 1e-10 the same way).
SeedTols ==
  { [set |-> TRUE, txt |-> "1e-10*eps", syms |-> {EPS}, sympy |-> TRUE] }

\* A derivative specification as a caller gives it: omitted, a tuple or a list.
NoDiff == [given |-> FALSE, form |-> "none", val |-> <<>>]
DiffVals ==
  UNION { [1..n -> Orders] : n \in Dims }
DiffInputs ==
  {NoDiff} \cup [given : {TRUE}, form : {"tuple", "list"}, val : DiffVals]

\* The keys of the cache and of the limits table: tuples.
Keys == [form : {"tuple"}, val : DiffVals]
NoKey == [form |-> "none", val |-> <<>>]

\* Values of the limits table (the module seeds 0 and expressions in eps).
LimitVals == {"0"}

\* The limits argument of the constructor: None, or the docstring's example.
NoLimits == << >>
LimitsInputs ==
  { [given |-> FALSE, table |-> NoLimits],
    [given |-> TRUE,
     table |-> [k \in {[form |-> "tuple", val |-> <<0>>]} |-> "0"]] }

(* ----------------------------------------------------------------- errors *)

NoError == [kind |-> "none", label |-> "", axis |-> 0, got |-> 0, want |-> 0]

Err(kind) == [kind |-> kind, label |-> "", axis |-> 0, got |-> 0, want |-> 0]

\* The two ValueErrors of _assert_shape are the spec's ShapeMismatch.
IsShapeMismatch(e) == e.kind \in {"rank", "axis"}

IsCompileError(e) == e.kind \in {"UnsupportedLimit", "CodegenError"}

Min(S) == CHOOSE m \in S : \A n \in S : m <= n

\* _assert_shape(a, shape, label), a given by np.shape(a).
AssertShapeNoAxis(ashape, shape, label) ==
  IF Len(ashape) # Len(shape)
  THEN [kind |-> "rank", label |-> label, axis |-> 0,
        got |-> Len(ashape), want |-> Len(shape)]
  ELSE NoError

AssertShape(ashape, shape, label) ==
  IF Len(ashape) # Len(shape)
  THEN [kind |-> "rank", label |-> label, axis |-> 0,
        got |-> Len(ashape), want |-> Len(shape)]
  ELSE LET bad == { i \in 1..Len(shape) :
                      shape[i] # AnyLen /\ ashape[i] # shape[i] }
       IN  IF bad = {} THEN NoError
           ELSE [kind |-> "axis", label |-> label, axis |-> Min(bad) - 1,
                 got |-> ashape[Min(bad)], want |-> shape[Min(bad)]]

(* ------------------------------------------------------------ constructor *)

\* expr.subs(_R, _EPS*_R): r is replaced by eps*r, so eps becomes free.
SubsEpsR(expr) ==
  [name |-> expr.name, syms |-> expr.syms \cup {EPS}, scaled |-> TRUE]

\* sympy.sympify(tol): a number or a string becomes a sympy object.
Sympify(t) == [t EXCEPT !.sympy = TRUE]

\* The checks of __init__, in the order the code makes them; the first that
\* fails raises.
InitErrorNoTolCheck(expr, t) ==
  IF expr.syms \ {R, EPS} # {} THEN Err("InvalidSymbols")
  ELSE IF R \notin expr.syms THEN Err("MissingRadialVariable")
  ELSE NoError

InitError(expr, t) ==
  IF expr.syms \ {R, EPS} # {} THEN Err("InvalidSymbols")
  ELSE IF R \notin expr.syms THEN Err("MissingRadialVariable")
  ELSE IF t.set /\ Sympify(t).syms \ {EPS} # {} THEN Err("InvalidTolerance")
  ELSE NoError

\* self.expr as __init__ stores it.
InitExpr(expr) == IF EPS \notin expr.syms THEN SubsEpsR(expr) ELSE expr

\* self.tol as __init__ stores it.
InitTol(t) == IF t.set THEN Sympify(t) ELSE t

\* self.limits as __init__ stores it.
InitLimits(l) == IF l.given THEN l.table ELSE NoLimits

(* ------------------------------------------------------ derivative compiler *)

\* tuple(diff)
TupleKeepsForm(diff) == [form |-> diff.form, val |-> diff.val]

Tuple(diff) == [form |-> "tuple", val |-> diff.val]

\* np.shape of a flat sequence of integers.
ShapeOfDiff(key) == << Len(key.val) >>

\* What no limit and no evaluator look like.
NoLim == [src |-> "none", val |-> ""]
NoFunc ==
  [nargs |-> 0, dim |-> 0, kind |-> "none", near |-> NoLim, cmp |-> "",
   below |-> NoTol, far |-> [expr |-> NoExpr, orders |-> <<>>]]

\* self.expr with r replaced by the distance of x and c in len(diff)
\* coordinates, differentiated order times along each axis of nonzero order.
Differentiate(expr, key) == [expr |-> expr, orders |-> key.val]

\* The limiting value add_diff_to_cache uses when tol is set: the entry of the
\* limits table if diff is a key of it, else the limit it derives itself.
LimitAlwaysSymbolic(lims, key) == [src |-> "symbolic", val |-> "limit"]

Limit(lims, key) ==
  IF key \in DOMAIN lims
  THEN [src |-> "table", val |-> lims[key]]
  ELSE [src |-> "symbolic", val |-> "limit"]

\* ufuncify(x_sym + c_sym + (_EPS,), expr): one argument per coordinate of x,
\* per coordinate of c, and eps.
NumArgs(dim) == dim + dim + 1

\* The evaluator add_diff_to_cache(diff) compiles from expr, tol and limits:
\* Piecewise((lim, r < tol), (expr, True)) when tol is set, expr otherwise.
CompileFunc(expr, t, lims, key) ==
  LET dim == Len(key.val)
      d   == Differentiate(expr, key)
  IN  IF t.set
      THEN [nargs |-> NumArgs(dim), dim |-> dim, kind |-> "piecewise",
            near |-> Limit(lims, key), cmp |-> "<", below |-> t, far |-> d]
      ELSE [nargs |-> NumArgs(dim), dim |-> dim, kind |-> "plain",
            near |-> NoLim, cmp |-> "", below |-> NoTol, far |-> d]

\* What add_diff_to_cache looks up on its way: the limits table and sympy's
\* limit only when tol is set, and the latter only on a table miss.
Consulted(t, lims, key) ==
  IF ~t.set THEN {}
  ELSE IF key \in DOMAIN lims THEN {"limits"}
  ELSE {"limits", "limit"}

\* How a compilation can end. sympy's limit can raise only where it is called;
\* differentiation and code generation can raise on any call.
CompileOutcomes(t, lims, key) ==
  {"ok", "CodegenError"} \cup
  (IF "limit" \in Consulted(t, lims, key) THEN {"UnsupportedLimit"} ELSE {})

\* self.cache[diff] = func
StoreDropsOthers(c, key, func) == [k \in {key} |-> func]

Store(c, key, func) ==
  [k \in DOMAIN c \cup {key} |-> IF k = key THEN func ELSE c[k]]

\* diff not in self.cache
CacheMissAlways(c, key) == TRUE

CacheMiss(c, key) == key \notin DOMAIN c

(* ------------------------------------------------------------------ state *)

VARIABLES
  obj,          \* "none" before a successful construction, "live" after
  expr,         \* self.expr
  tol,          \* self.tol
  limits,       \* self.limits: key -> limiting value
  cache,        \* self.cache: key -> compiled evaluator
  last,         \* what the last operation did and returned or raised
  evalCompiles, \* per key, the evaluators __call__ has had compiled
  keyCap,       \* the number of distinct keys the callers of this run use
  pc,           \* per thread, where it stands in __call__
  tkey,         \* per thread, the diff of the call it is in
  hit,          \* per thread, whether that diff was cached when the call began
  ret           \* per thread, whether its last call returned or raised

vars ==
  << obj, expr, tol, limits, cache, last, evalCompiles, keyCap,
     pc, tkey, hit, ret >>

threadVars == << pc, tkey, hit, ret >>

\* The record of an operation; the fields an operation does not set keep
\* these values.
NoOp ==
  [op |-> "none", err |-> NoError, key |-> NoKey, compiled |-> FALSE,
   used |-> NoFunc, nargs |-> 0, consulted |-> {}]

NoRet == "none"

\* The keys a run has put in the cache or in the limits table, or is using.
Touched == DOMAIN cache \cup DOMAIN limits
InFlight == { tkey[t] : t \in { u \in Threads : pc[u] # "idle" } }
Room(key) == Cardinality(Touched \cup InFlight \cup {key}) <= keyCap

(* ----------------------------------------------------------------- inputs *)

Pts == 1..MaxPts

\* Shapes of the x and c arguments: arrays of rank 1, 2 and 3.
XShapes ==
  { <<1>>, <<1, 1, 1>> } \cup { <<1, d>> : d \in Dims }
CShapes ==
  { <<1>>, <<1, 1, 1>> } \cup { <<m, d>> : m \in Pts, d \in Dims }

\* The eps argument: a scalar, or an array of rank 0, 1 or 2.
EpsInputs ==
  { [scalar |-> TRUE, shape |-> <<>>], [scalar |-> FALSE, shape |-> <<>>],
    [scalar |-> FALSE, shape |-> <<1, 1>>] }
    \cup { [scalar |-> FALSE, shape |-> <<m>>] : m \in Pts }

\* The claim's conditions on the arguments, on the shapes themselves.
XValid(x) == Len(x) = 2
CValid(x, c) == Len(c) = 2 /\ c[2] = x[2]
EpsValid(c, eps) == eps.scalar \/ eps.shape = << c[1] >>
DiffValid(x, diff) == ~diff.given \/ Len(diff.val) = x[2]
ValidCall(x, c, eps, diff) ==
  XValid(x) /\ CValid(x, c) /\ EpsValid(c, eps) /\ DiffValid(x, diff)

\* The calls of a run: every combination of arguments up to the first
\* argument that is wrong, and one value for each argument after it.
DefaultC == <<1, 1>>
DefaultEps == [scalar |-> TRUE, shape |-> <<>>]
CallInputs ==
  { i \in XShapes \X CShapes \X EpsInputs \X DiffInputs :
      /\ (~XValid(i[1]) => i[2] = DefaultC)
      /\ (~(XValid(i[1]) /\ CValid(i[1], i[2])) => i[3] = DefaultEps)
      /\ (~(XValid(i[1]) /\ CValid(i[1], i[2]) /\ EpsValid(i[2], i[3]))
            => i[4] = NoDiff) }

\* The calls of a run that also reassigns tol and limits: one center, a
\* scalar eps, and any diff.
SeededCallInputs ==
  { i \in CallInputs :
      /\ XValid(i[1]) /\ CValid(i[1], i[2]) /\ i[2][1] = 1
      /\ i[3] = DefaultEps }

\* The calls of the threads: those whose arguments are all valid.
ConcCallInputs ==
  { i \in SeededCallInputs : ValidCall(i[1], i[2], i[3], i[4]) }

(* -------------------------------------------------------------- __call__ *)

\* eps as an array: np.full(c.shape[0], eps) for a scalar.
EpsShape(c, eps) == IF eps.scalar THEN << c[1] >> ELSE eps.shape

\* diff as __call__ keys it: (0,)*x.shape[1] when omitted, tuple(diff) else.
CallKey(x, diff) ==
  IF ~diff.given
  THEN [form |-> "tuple", val |-> [i \in 1..x[2] |-> 0]]
  ELSE Tuple(diff)

\* The shape checks of __call__ in the code's order: the first that fails
\* raises, and the later ones are not reached.
CallErrorNoDiffCheck(x, c, eps, diff) ==
  LET ex == AssertShape(x, <<AnyLen, AnyLen>>, "x") IN
  IF ex # NoError THEN ex ELSE
  LET ec == AssertShape(c, <<AnyLen, x[2]>>, "c") IN
  IF ec # NoError THEN ec ELSE
  AssertShape(EpsShape(c, eps), << c[1] >>, "eps")

CallError(x, c, eps, diff) ==
  LET ex == AssertShape(x, <<AnyLen, AnyLen>>, "x") IN
  IF ex # NoError THEN ex ELSE
  LET ec == AssertShape(c, <<AnyLen, x[2]>>, "c") IN
  IF ec # NoError THEN ec ELSE
  LET ee == AssertShape(EpsShape(c, eps), << c[1] >>, "eps") IN
  IF ee # NoError THEN ee ELSE
  AssertShape(ShapeOfDiff(CallKey(x, diff)), << x[2] >>, "diff")

\* args = tuple(x) + tuple(c) + (eps,): the arguments the evaluator is given.
PassedArgs(x, c) == x[2] + c[2] + 1

\* __call__ and add_diff_to_cache assign no attribute but entries of the cache.
CallFrameClobbersExpr ==
  /\ UNCHANGED << obj, tol, limits >>
  /\ expr' = [expr EXCEPT !.name = "subs(r, r_sym)"]

CallFrame == UNCHANGED << obj, expr, tol, limits >>

\* add_diff_to_cache(key) ending in outcome o: the cache it leaves. func is
\* stored by the last statement, after everything that can raise.
AddDiffCacheStoresFirst(key, o) ==
  Store(cache, key, CompileFunc(expr, tol, limits, key))

AddDiffCache(key, o) ==
  IF o = "ok"
  THEN Store(cache, key, CompileFunc(expr, tol, limits, key))
  ELSE cache

\* evalCompiles with one more evaluator compiled for key.
Count(f, key) == IF key \in DOMAIN f THEN f[key] ELSE 0
CountUp(f, key) ==
  [k \in DOMAIN f \cup {key} |-> IF k = key THEN Count(f, key) + 1 ELSE f[k]]

\* How a call with these arguments can end: as its compilation does, when it
\* compiles.
CallOutcomes(x, c, eps, diff) ==
  IF CallError(x, c, eps, diff) # NoError THEN {"ok"}
  ELSE IF CacheMiss(cache, CallKey(x, diff))
       THEN CompileOutcomes(tol, limits, CallKey(x, diff))
       ELSE {"ok"}

\* __call__(x, c, eps, diff) in the present state, its compilation (if any)
\* ending in o: the cache and the count it leaves and what it returns or
\* raises.
CallResult(x, c, eps, diff, o) ==
  LET e == CallError(x, c, eps, diff) IN
  IF e # NoError
  THEN [cache |-> cache, evalCompiles |-> evalCompiles,
        last |-> [NoOp EXCEPT !.op = "call", !.err = e]]
  ELSE
    LET key == CallKey(x, diff) IN
    IF CacheMiss(cache, key)
    THEN LET after == AddDiffCache(key, o) IN
         IF o = "ok"
         THEN [cache |-> after, evalCompiles |-> CountUp(evalCompiles, key),
               last |-> [op |-> "call", err |-> NoError, key |-> key,
                         compiled |-> TRUE, used |-> after[key],
                         nargs |-> PassedArgs(x, c),
                         consulted |-> Consulted(tol, limits, key)]]
         ELSE [cache |-> after, evalCompiles |-> evalCompiles,
               last |-> [NoOp EXCEPT
                           !.op = "call", !.err = Err(o), !.key = key,
                           !.compiled = TRUE,
                           !.consulted = Consulted(tol, limits, key)]]
    ELSE [cache |-> cache, evalCompiles |-> evalCompiles,
          last |-> [op |-> "call", err |-> NoError, key |-> key,
                    compiled |-> FALSE, used |-> cache[key],
                    nargs |-> PassedArgs(x, c), consulted |-> {}]]

\* The callers of a run use at most keyCap keys.
CallRoom(x, c, eps, diff) ==
  CallError(x, c, eps, diff) = NoError => Room(CallKey(x, diff))

Evaluate(x, c, eps, diff) ==
  /\ obj = "live"
  /\ CallRoom(x, c, eps, diff)
  /\ \E o \in CallOutcomes(x, c, eps, diff) :
       LET r == CallResult(x, c, eps, diff, o) IN
       /\ cache' = r.cache
       /\ evalCompiles' = r.evalCompiles
       /\ last' = r.last
  /\ CallFrame
  /\ UNCHANGED << keyCap, pc, tkey, hit, ret >>

(* ------------------------------------- the other operations of one instance *)

\* RBF(expr, tol, limits)
Construct(e, t, l) ==
  /\ obj = "none"
  /\ IF InitError(e, t) # NoError
     THEN /\ last' = [NoOp EXCEPT !.op = "construct", !.err = InitError(e, t)]
          /\ UNCHANGED << obj, expr, tol, limits, cache >>
     ELSE /\ obj' = "live"
          /\ expr' = InitExpr(e)
          /\ tol' = InitTol(t)
          /\ cache' = << >>
          /\ limits' = InitLimits(l)
          /\ last' = [NoOp EXCEPT !.op = "construct"]
  /\ UNCHANGED << evalCompiles, keyCap, pc, tkey, hit, ret >>

\* rbf.add_diff_to_cache(diff), called directly: compiles and stores whether
\* or not the key is cached.
AddDiffToCache(diff) ==
  /\ obj = "live"
  /\ diff.given
  /\ LET key == Tuple(diff)
         e   == AssertShape(ShapeOfDiff(key), <<AnyLen>>, "diff")
     IN  /\ Room(key)
         /\ IF e # NoError
            THEN /\ last' = [NoOp EXCEPT !.op = "add_diff_to_cache", !.err = e]
                 /\ UNCHANGED cache
            ELSE \E o \in CompileOutcomes(tol, limits, key) :
                   /\ cache' = AddDiffCache(key, o)
                   /\ last' = [NoOp EXCEPT
                                 !.op = "add_diff_to_cache",
                                 !.err = IF o = "ok" THEN NoError ELSE Err(o),
                                 !.key = key, !.compiled = TRUE,
                                 !.consulted = Consulted(tol, limits, key)]
  /\ CallFrame
  /\ UNCHANGED << evalCompiles, keyCap, pc, tkey, hit, ret >>

\* rbf.tol = t, as the module does for phs1..phs8, mat32 and mat52 after
\* constructing them without a tolerance.
SetTol(t) ==
  /\ obj = "live"
  /\ tol' = t
  /\ last' = [NoOp EXCEPT !.op = "set_tol"]
  /\ UNCHANGED << obj, expr, limits, cache, evalCompiles >>
  /\ UNCHANGED << keyCap, pc, tkey, hit, ret >>

\* rbf.limits[key] = v, as the module does for phs1..phs8.
SetLimit(key, v) ==
  /\ obj = "live"
  /\ Room(key)
  /\ limits' = [k \in DOMAIN limits \cup {key} |->
                  IF k = key THEN v ELSE limits[k]]
  /\ last' = [NoOp EXCEPT !.op = "set_limit", !.key = key]
  /\ UNCHANGED << obj, expr, tol, cache, evalCompiles >>
  /\ UNCHANGED << keyCap, pc, tkey, hit, ret >>

(* --------------------------------------------------------- specifications *)

\* Before construction, with the callers' number of keys.
Unbuilt(cap) ==
  /\ obj = "none"
  /\ expr = NoExpr
  /\ tol = NoTol
  /\ limits = NoLimits
  /\ cache = << >>
  /\ last = NoOp
  /\ evalCompiles = << >>
  /\ keyCap = cap
  /\ pc = [t \in Threads |-> "idle"]
  /\ tkey = [t \in Threads |-> NoKey]
  /\ hit = [t \in Threads |-> FALSE]
  /\ ret = [t \in Threads |-> NoRet]

\* One instance: construction, evaluation, direct compilation, and the
\* reassignment of tol and of entries of limits.
Init == Unbuilt(MaxKeysSeeded)

Next ==
  \/ \E e \in ExprInputs, t \in TolInputs, l \in LimitsInputs : Construct(e, t, l)
  \/ \E i \in SeededCallInputs : Evaluate(i[1], i[2], i[3], i[4])
  \/ \E diff \in DiffInputs : AddDiffToCache(diff)
  \/ \E t \in SeedTols : SetTol(t)
  \/ \E key \in Keys, v \in LimitVals : SetLimit(key, v)

Spec == Init /\ [][Next]_vars

\* One instance: construction, then evaluation calls with every kind of
\* argument.
InitCalls == Unbuilt(MaxKeys)

NextCalls ==
  \/ \E e \in ExprInputs, t \in TolInputs, l \in LimitsInputs : Construct(e, t, l)
  \/ \E i \in CallInputs : Evaluate(i[1], i[2], i[3], i[4])

SpecCalls == InitCalls /\ [][NextCalls]_vars

(* ------------------------------------------- __call__ from several threads *)

\* Lines 267-291: the arguments are checked and diff is made a tuple; nothing
\* of the instance is read or written.
Begin(t, x, c, eps, diff) ==
  /\ obj = "live"
  /\ pc[t] = "idle"
  /\ LET e == CallError(x, c, eps, diff) IN
     IF e # NoError
     THEN /\ ret' = [ret EXCEPT ![t] = "raised"]
          /\ UNCHANGED << pc, tkey, hit >>
     ELSE LET key == CallKey(x, diff) IN
          /\ Room(key)
          /\ pc' = [pc EXCEPT ![t] = "check"]
          /\ tkey' = [tkey EXCEPT ![t] = key]
          /\ hit' = [hit EXCEPT ![t] = key \in DOMAIN cache]
          /\ ret' = [ret EXCEPT ![t] = "running"]
  /\ UNCHANGED << obj, expr, tol, limits, cache, last, evalCompiles, keyCap >>

\* Line 293: if diff not in self.cache
Check(t) ==
  /\ pc[t] = "check"
  /\ pc' = [pc EXCEPT ![t] =
              IF CacheMiss(cache, tkey[t]) THEN "compile" ELSE "invoke"]
  /\ UNCHANGED << obj, expr, tol, limits, cache, last, evalCompiles, keyCap,
                  tkey, hit, ret >>

\* Line 294: self.add_diff_to_cache(diff), which stores at its end or raises.
CompileStore(t) ==
  /\ pc[t] = "compile"
  /\ \E o \in CompileOutcomes(tol, limits, tkey[t]) :
       /\ cache' = AddDiffCache(tkey[t], o)
       /\ IF o = "ok"
          THEN /\ evalCompiles' = CountUp(evalCompiles, tkey[t])
               /\ pc' = [pc EXCEPT ![t] = "invoke"]
               /\ UNCHANGED << tkey, hit, ret >>
          ELSE /\ evalCompiles' = evalCompiles
               /\ pc' = [pc EXCEPT ![t] = "idle"]
               /\ tkey' = [tkey EXCEPT ![t] = NoKey]
               /\ hit' = [hit EXCEPT ![t] = FALSE]
               /\ ret' = [ret EXCEPT ![t] = "raised"]
  /\ CallFrame
  /\ UNCHANGED << last, keyCap >>

\* Lines 296-298: out = self.cache[diff](*args); return out
Invoke(t) ==
  /\ pc[t] = "invoke"
  /\ tkey[t] \in DOMAIN cache
  /\ ret' = [ret EXCEPT ![t] = "returned"]
  /\ pc' = [pc EXCEPT ![t] = "idle"]
  /\ tkey' = [tkey EXCEPT ![t] = NoKey]
  /\ hit' = [hit EXCEPT ![t] = FALSE]
  /\ UNCHANGED << obj, expr, tol, limits, cache, last, evalCompiles, keyCap >>

\* A constructed instance, called by the threads.
InitConc ==
  /\ \E e \in ExprInputs, t \in TolInputs, l \in LimitsInputs :
       /\ InitError(e, t) = NoError
       /\ expr = InitExpr(e)
       /\ tol = InitTol(t)
       /\ limits = InitLimits(l)
  /\ obj = "live"
  /\ cache = << >>
  /\ last = [NoOp EXCEPT !.op = "construct"]
  /\ evalCompiles = << >>
  /\ keyCap = MaxKeys
  /\ pc = [t \in Threads |-> "idle"]
  /\ tkey = [t \in Threads |-> NoKey]
  /\ hit = [t \in Threads |-> FALSE]
  /\ ret = [t \in Threads |-> NoRet]

NextConc ==
  \/ \E t \in Threads, i \in ConcCallInputs :
       Begin(t, i[1], i[2], i[3], i[4])
  \/ \E t \in Threads : Check(t)
  \/ \E t \in Threads : CompileStore(t)
  \/ \E t \in Threads : Invoke(t)

SpecConc == InitConc /\ [][NextConc]_vars

(* ------------------------------------------------------------ properties *)

\* The all-zeros multi-index of dimension d, and the key a call is about in
\* the caller's terms: the tuple with the entries of diff, or all zeros.
Zeros(d) == [i \in 1..d |-> 0]
AskedKey(x, diff) ==
  [form |-> "tuple", val |-> IF diff.given THEN diff.val ELSE Zeros(x[2])]

Valid(i) == ValidCall(i[1], i[2], i[3], i[4])
ValidCallInputs == { i \in CallInputs : Valid(i) }
InvalidCallInputs == CallInputs \ ValidCallInputs

\* P(i, o, r) for every call i of the set that the instance may receive now,
\* every way o it can end, and its result r.
ForEachCall(inputs, P(_, _, _)) ==
  obj = "live" =>
    \A i \in inputs :
      \A o \in CallOutcomes(i[1], i[2], i[3], i[4]) :
        P(i, o, CallResult(i[1], i[2], i[3], i[4], o))

\* C1: over any sequence of evaluate calls with valid arguments, a call
\* invokes the compiler exactly when its key is not cached, a compiled
\* evaluator is stored under that key and is the one invoked, no cached key is
\* ever removed or rebound, and so no key is compiled twice through evaluate.
C1_Call(i, o, r) ==
  LET key == AskedKey(i[1], i[4]) IN
  /\ r.last.compiled <=> key \notin DOMAIN cache
  /\ (r.last.compiled /\ r.last.err = NoError) =>
       /\ key \in DOMAIN r.cache
       /\ r.last.used = r.cache[key]
       /\ Count(r.evalCompiles, key) = Count(evalCompiles, key) + 1
  /\ ~r.last.compiled => (r.cache = cache /\ r.evalCompiles = evalCompiles)
  /\ \A k \in DOMAIN cache : k \in DOMAIN r.cache /\ r.cache[k] = cache[k]

C1_CompiledOncePerKey ==
  /\ [](\A k \in DOMAIN evalCompiles : evalCompiles[k] <= 1)
  /\ [](ForEachCall(ValidCallInputs, C1_Call))
  /\ [][\A k \in DOMAIN cache :
          k \in DOMAIN cache' /\ cache'[k] = cache[k]]_vars

\* C1's case: a second call with a key found the evaluator the first compiled.
C1_Witness ==
  /\ last.op = "call" /\ last.err = NoError /\ ~last.compiled
  /\ Count(evalCompiles, last.key) = 1
  /\ Cardinality(DOMAIN cache) = 2

\* C2: a call whose x is not of rank 2, whose c is not of rank 2 with x's
\* second axis, whose eps is neither a scalar nor of shape (M,), or whose diff
\* is not of length D raises a shape error, compiles nothing, invokes no
\* evaluator and leaves the cache as it was.
C2_Call(i, o, r) ==
  /\ IsShapeMismatch(r.last.err)
  /\ ~r.last.compiled
  /\ r.last.used = NoFunc
  /\ r.cache = cache
  /\ r.evalCompiles = evalCompiles

C2_ShapeMismatchBeforeWork == ForEachCall(InvalidCallInputs, C2_Call)

\* C2's case: a call with an eps of the wrong length was refused by an
\* instance that has a cached evaluator.
C2_Witness ==
  /\ last.op = "call" /\ last.err.kind = "axis" /\ last.err.label = "eps"
  /\ DOMAIN cache # {}

\* The three conditions of C3 on the constructor's arguments.
ForeignSymbol(e) == e.syms \ {R, EPS} # {}
NoRadial(e) == R \notin e.syms
BadTolerance(t) == t.set /\ t.syms \ {EPS} # {}

\* C3: the constructor fails when the expression has a foreign symbol, when
\* it does not depend on r, and when the tolerance has a symbol other than
\* eps; the error it raises is one whose condition holds, the first of them in
\* the order given; a failed construction leaves no instance and sets no
\* attribute; any other construction yields an instance with an empty cache.
C3_ConstructorErrors ==
  [][ \A e \in ExprInputs, t \in TolInputs, l \in LimitsInputs :
        Construct(e, t, l) =>
          LET k == last'.err.kind IN
          /\ (ForeignSymbol(e) \/ NoRadial(e) \/ BadTolerance(t)) =>
               /\ k \in {"InvalidSymbols", "MissingRadialVariable",
                         "InvalidTolerance"}
               /\ obj' = "none" /\ expr' = NoExpr /\ tol' = NoTol
               /\ limits' = NoLimits /\ cache' = << >>
          /\ (k = "InvalidSymbols" => ForeignSymbol(e))
          /\ (k = "MissingRadialVariable" => NoRadial(e))
          /\ (k = "InvalidTolerance" => BadTolerance(t))
          /\ (ForeignSymbol(e) => k = "InvalidSymbols")
          /\ (NoRadial(e) /\ ~ForeignSymbol(e) => k = "MissingRadialVariable")
          /\ (BadTolerance(t) /\ ~ForeignSymbol(e) /\ ~NoRadial(e)
                => k = "InvalidTolerance")
          /\ ~(ForeignSymbol(e) \/ NoRadial(e) \/ BadTolerance(t)) =>
               /\ k = "none" /\ obj' = "live" /\ cache' = << >> ]_vars

\* C3's case: a construction was refused for its tolerance and left nothing.
C3_Witness ==
  /\ last.op = "construct" /\ last.err.kind = "InvalidTolerance"
  /\ obj = "none" /\ expr = NoExpr

\* C4 as stated: once an instance is constructed, its expression and its
\* tolerance never change.
C4_ExprAndTolFrozen ==
  [][ obj = "live" => (expr' = expr /\ tol' = tol) ]_vars

\* C4 as amended: once an instance is constructed its expression never
\* changes, and evaluation and add_diff_to_cache change nothing but the cache;
\* the tolerance and the limits table change only by assignment to the
\* attribute, which is how the module gives its predefined instances their
\* tolerance after constructing them without one.
C4_OnlyAssignmentChangesTol ==
  [][ obj = "live" =>
        /\ obj' = "live"
        /\ expr' = expr
        /\ (tol' # tol => last'.op = "set_tol")
        /\ (limits' # limits => last'.op = "set_limit")
        /\ (cache' # cache => last'.op \in {"call", "add_diff_to_cache"}) ]_vars

\* C4's case: the tolerance was assigned after an evaluator had been compiled
\* without one.
C4_Witness ==
  /\ last.op = "set_tol" /\ tol.set
  /\ \E k \in DOMAIN cache : cache[k].kind = "plain"

\* C5: every cached key of length D is bound to an evaluator compiled for D
\* coordinates of x and D of c (2D+1 arguments), and a call of dimension D
\* invokes the evaluator stored under a key of length D, with 2D+1 arguments.
C5_KeysScopedByDimension ==
  /\ \A k \in DOMAIN cache :
       cache[k].dim = Len(k.val) /\ cache[k].nargs = 2 * Len(k.val) + 1
  /\ (last.op = "call" /\ last.err = NoError) =>
       /\ last.nargs = 2 * Len(last.key.val) + 1
       /\ last.used = cache[last.key]
       /\ last.used.nargs = last.nargs

\* C5's case: evaluators of two dimensions are cached and one was invoked.
C5_Witness ==
  /\ last.op = "call" /\ last.err = NoError
  /\ \E j, k \in DOMAIN cache : Len(j.val) # Len(k.val)

\* C6: a step of a call whose key was cached when the call began never
\* changes the cache and never compiles, whatever the other threads do; so
\* calls whose keys are all cached leave the cache as it is.
C6_CachedCallsReadOnly ==
  [][ \A t \in Threads :
        (pc[t] # "idle" /\ hit[t] /\ pc'[t] # pc[t]) =>
          /\ cache' = cache
          /\ evalCompiles' = evalCompiles
          /\ pc'[t] # "compile" ]_vars

\* C6's case: two threads are inside calls whose keys were both cached.
C6_Witness ==
  \A t \in Threads : pc[t] = "invoke" /\ hit[t]

\* C7: an evaluator compiled while the tolerance is set is the piecewise of
\* the limiting value where r < tol and the differentiated expression
\* elsewhere, the limiting value being the entry of the limits table when diff
\* is a key of it and derived by sympy only otherwise; one compiled while no
\* tolerance is set is the differentiated expression, and neither the table
\* nor sympy's limit is consulted.
C7_LimitLookupOrder ==
  [][ ( /\ last'.op \in {"call", "add_diff_to_cache"}
        /\ last'.compiled /\ last'.err = NoError ) =>
        LET key == last'.key
            f   == cache'[key]
        IN  /\ f.far = [expr |-> expr, orders |-> key.val]
            /\ IF tol.set
               THEN /\ f.kind = "piecewise" /\ f.cmp = "<" /\ f.below = tol
                    /\ key \in DOMAIN limits =>
                         /\ f.near = [src |-> "table", val |-> limits[key]]
                         /\ last'.consulted = {"limits"}
                    /\ key \notin DOMAIN limits =>
                         /\ f.near.src = "symbolic"
                         /\ last'.consulted = {"limits", "limit"}
               ELSE /\ f.kind = "plain" /\ f.near = NoLim
                    /\ last'.consulted = {} ]_vars

\* C7's case: an evaluator was compiled with the limit of the table.
C7_Witness ==
  /\ last.op = "add_diff_to_cache" /\ last.err = NoError
  /\ last.consulted = {"limits"}
  /\ cache[last.key].near.src = "table"

\* C8: a call without diff does what the call with the all-zeros tuple does,
\* and a call with diff as a list what the call with the equal tuple does:
\* the same cache, the same compilations, the same evaluator invoked; so both
\* use one cache entry, and every cached key is a tuple.
C8_Call(i, o, r) ==
  LET x == i[1]  c == i[2]  eps == i[3]  diff == i[4] IN
  /\ ~diff.given =>
       r = CallResult(x, c, eps, [given |-> TRUE, form |-> "tuple",
                                  val |-> Zeros(x[2])], o)
  /\ diff.given =>
       /\ r = CallResult(x, c, eps, [diff EXCEPT !.form = "list"], o)
       /\ r = CallResult(x, c, eps, [diff EXCEPT !.form = "tuple"], o)
  /\ \A k \in DOMAIN r.cache : k.form = "tuple"

C8_DefaultAndListDiff ==
  /\ ForEachCall(ValidCallInputs, C8_Call)
  /\ \A k \in DOMAIN cache : k.form = "tuple"

\* C8's case: a call with the all-zeros key reused the one cached entry.
C8_Witness ==
  /\ last.op = "call" /\ last.err = NoError /\ ~last.compiled
  /\ last.key.val \in { Zeros(d) : d \in Dims }
  /\ DOMAIN cache = {last.key}

\* C9: a call whose compilation raises surfaces that error, invokes no
\* evaluator and leaves the cache as it was, without the key; so after such a
\* call the key is not cached, and the next call with it compiles again.
C9_Call(i, o, r) ==
  LET key == AskedKey(i[1], i[4]) IN
  /\ o # "ok" =>
       /\ r.last.err = Err(o)
       /\ r.last.used = NoFunc
       /\ r.cache = cache
       /\ key \notin DOMAIN r.cache
       /\ r.evalCompiles = evalCompiles
  /\ (last.op = "call" /\ IsCompileError(last.err) /\ key = last.key) =>
       r.last.compiled

C9_FailedCompileLeavesCache ==
  /\ ForEachCall(ValidCallInputs, C9_Call)
  /\ (last.op = "call" /\ IsCompileError(last.err)) =>
       (last.key \notin DOMAIN cache /\ last.used = NoFunc)

\* C9's case: a compilation failed in an instance that has a cached evaluator.
C9_Witness ==
  /\ last.op = "call" /\ last.err.kind = "UnsupportedLimit"
  /\ DOMAIN cache # {}

\* C10: a call whose key is cached compiles nothing and invokes the cached
\* evaluator, whatever tol and limits have become since it was compiled; a
\* cached entry is replaced only by a direct add_diff_to_cache of its key.
C10_CachedEvaluatorIsFixed ==
  /\ [][ ( /\ last'.op = "call" /\ last'.err = NoError
           /\ last'.key \in DOMAIN cache ) =>
           /\ cache' = cache
           /\ ~last'.compiled
           /\ last'.used = cache[last'.key] ]_vars
  /\ [][ \A k \in DOMAIN cache :
           /\ k \in DOMAIN cache'
           /\ cache'[k] # cache[k] =>
                (last'.op = "add_diff_to_cache" /\ last'.key = k) ]_vars

\* C10's case: a call invoked an evaluator that is not the one the present
\* tol and limits would compile.
C10_Witness ==
  /\ last.op = "call" /\ last.err = NoError /\ ~last.compiled
  /\ last.used # CompileFunc(expr, tol, limits, last.key)

====
